---- MODULE Spec2Model ----
(***************************************************************************)
(* Conditional hoisting in loopy's loop-nest builder                       *)
(* (loopy/codegen/control.py): build_loop_nest and its nested              *)
(* build_insn_group, the admissibility analysis and the required-predicate *)
(* aggregation, as a state machine that executes build_insn_group with an  *)
(* explicit call stack.                                                    *)
(*                                                                         *)
(* Python values are represented as follows.                               *)
(*   - a set or frozenset is a TLA+ set; a list whose order the code never *)
(*     uses (bounds_checks) is a set too; other lists are sequences;       *)
(*   - Python's None, where the code can hold it in place of a set, is the *)
(*     sentinel NonePreds / NoneBounds, a value no real set equals;        *)
(*   - an affine constraint is a pair <<iname, side>>; a polyhedral set    *)
(*     given by a conjunction of constraints is the set of those           *)
(*     constraints, the universe being {}.                                 *)
(***************************************************************************)
EXTENDS Integers, Sequences, FiniteSets, TLC

VARIABLES kernel, codegen_state0, stack, out, raised, dispatched, pc

vars == <<kernel, codegen_state0, stack, out, raised, dispatched, pc>>

(***************************************************************************)
(* Bounds of the model.                                                    *)
(***************************************************************************)
MaxSiblings == 3

(***************************************************************************)
(* The kernel's names.                                                     *)
(***************************************************************************)
Inames == {"i", "j", "k"}

Preds == {"p", "q"}

InsnIds == {"a", "b", "d"}

\* iname tags: "none" stands for an iname without an entry in iname_to_tag
Tags == {"none", "unr", "l.0", "l.1", "g.0"}

NonePreds == {"<None>"}

NoneBounds == {<<"<None>", "">>}

IsNonePreds(x) == x = NonePreds

IsNoneBounds(x) == x = NoneBounds

\* loopy.kernel.data: GroupIndexTag and LocalIndexTag are the two
\* HardwareParallelTag classes
IsHardwareParallelTag(tag) == tag \in {"l.0", "l.1", "g.0"}

IsLocalIndexTag(tag) == tag \in {"l.0", "l.1"}

IsGroupIndexTag(tag) == tag \in {"g.0"}

\* tag.key of an axis tag: the tag class together with the axis
TagKey(tag) == tag

(***************************************************************************)
(* Schedule items.                                                         *)
(***************************************************************************)
EnterLoop(iname) == [type |-> "EnterLoop", iname |-> iname, insn_id |-> ""]

LeaveLoop(iname) == [type |-> "LeaveLoop", iname |-> iname, insn_id |-> ""]

Barrier == [type |-> "Barrier", iname |-> "", insn_id |-> ""]

RunInstruction(id) == [type |-> "RunInstruction", iname |-> "", insn_id |-> id]

\* kernel.id_to_insn: the predicates of each instruction and the inames it
\* uses (kernel.insn_inames)
id_to_insn ==
    [id \in InsnIds |->
        CASE id = "a" -> [predicates |-> {}, inames |-> {"i"}]
          [] id = "b" -> [predicates |-> {"p"}, inames |-> {"i", "j"}]
          [] id = "d" -> [predicates |-> {"p", "q"}, inames |-> {"i", "k"}]]

(***************************************************************************)
(* Schedule queries (loopy.schedule).                                      *)
(***************************************************************************)
RECURSIVE MatchingLeave(_, _, _)
\* index of the LeaveLoop that closes the loop entered before position idx,
\* level being the number of loops open at idx
MatchingLeave(schedule, idx, level) ==
    IF idx > Len(schedule) THEN idx
    ELSE IF schedule[idx].type = "EnterLoop"
        THEN MatchingLeave(schedule, idx + 1, level + 1)
    ELSE IF schedule[idx].type = "LeaveLoop"
        THEN IF level = 1 THEN idx
             ELSE MatchingLeave(schedule, idx + 1, level - 1)
    ELSE MatchingLeave(schedule, idx + 1, level)

\* gather_schedule_subloop(schedule, sched_index)[1]: the index just past the
\* LeaveLoop matching the EnterLoop at sched_index
gather_schedule_subloop(schedule, sched_index) ==
    MatchingLeave(schedule, sched_index + 1, 1) + 1

\* the indices of the subtree rooted at sched_index: the item itself, or the
\* EnterLoop, its body and its LeaveLoop
SubtreeIndices(schedule, sched_index) ==
    IF schedule[sched_index].type = "EnterLoop"
    THEN sched_index .. (gather_schedule_subloop(schedule, sched_index) - 1)
    ELSE {sched_index}

\* generate_sub_sched_items: the RunInstruction and Barrier leaves of the
\* subtree
generate_sub_sched_items(schedule, sched_index) ==
    {i \in SubtreeIndices(schedule, sched_index) :
        schedule[i].type \in {"RunInstruction", "Barrier"}}

has_barrier_within(k, sched_index) ==
    \E i \in SubtreeIndices(k.schedule, sched_index) :
        k.schedule[i].type = "Barrier"

find_used_inames_within(k, sched_index) ==
    UNION {id_to_insn[k.schedule[i].insn_id].inames :
        i \in {x \in SubtreeIndices(k.schedule, sched_index) :
                  k.schedule[x].type = "RunInstruction"}}

\* the inames whose EnterLoop precedes sched_index and whose LeaveLoop does not
find_active_inames_at(k, sched_index) ==
    {k.schedule[e].iname :
        e \in {x \in 1 .. (sched_index - 1) :
                  /\ k.schedule[x].type = "EnterLoop"
                  /\ gather_schedule_subloop(k.schedule, x) > sched_index}}

(***************************************************************************)
(* Admissibility analysis and required predicates (control.py).            *)
(* Schedule indices are 1-based here: index n is Python's n - 1.           *)
(***************************************************************************)
\* mutant: local-tagged inames are never added
get_admissible_NeverLocal(k, sched_index) ==
    find_active_inames_at(k, sched_index) \cup
        {iname \in DOMAIN k.iname_to_tag :
            /\ IsHardwareParallelTag(k.iname_to_tag[iname])
            /\ ~IsLocalIndexTag(k.iname_to_tag[iname])}

\* mutant: a barrier within keeps every hardware-tagged iname out
get_admissible_NoneUnderBarrier(k, sched_index) ==
    find_active_inames_at(k, sched_index) \cup
        {iname \in DOMAIN k.iname_to_tag :
            /\ IsHardwareParallelTag(k.iname_to_tag[iname])
            /\ ~has_barrier_within(k, sched_index)}

\* mutant: the barrier test is lost, every hardware-tagged iname is added
get_admissible_IgnoresBarrier(k, sched_index) ==
    find_active_inames_at(k, sched_index) \cup
        {iname \in DOMAIN k.iname_to_tag :
            IsHardwareParallelTag(k.iname_to_tag[iname])}

get_admissible_conditional_inames_for(k, sched_index) ==
    LET result == find_active_inames_at(k, sched_index)
        has_barrier == has_barrier_within(k, sched_index)
    IN  result \cup
        {iname \in DOMAIN k.iname_to_tag :
            /\ IsHardwareParallelTag(k.iname_to_tag[iname])
            /\ (~has_barrier \/ ~IsLocalIndexTag(k.iname_to_tag[iname]))}

\* mutant: a key counts as shared only from three users on
remove_inames_SharedFromThree(k, cond_inames) ==
    LET tag_key_uses(key) ==
            {iname \in cond_inames :
                /\ IsHardwareParallelTag(k.iname_to_tag[iname])
                /\ TagKey(k.iname_to_tag[iname]) = key}
    IN  cond_inames \
        {iname \in cond_inames :
            /\ IsHardwareParallelTag(k.iname_to_tag[iname])
            /\ Cardinality(tag_key_uses(TagKey(k.iname_to_tag[iname]))) > 2}

remove_inames_for_shared_hw_axes(k, cond_inames) ==
    LET tag_key_uses(key) ==
            {iname \in cond_inames :
                /\ IsHardwareParallelTag(k.iname_to_tag[iname])
                /\ TagKey(k.iname_to_tag[iname]) = key}
        multi_use_keys ==
            {key \in {TagKey(k.iname_to_tag[iname]) : iname \in cond_inames} :
                Cardinality(tag_key_uses(key)) > 1}
        multi_use_inames ==
            {iname \in cond_inames :
                /\ IsHardwareParallelTag(k.iname_to_tag[iname])
                /\ TagKey(k.iname_to_tag[iname]) \in multi_use_keys}
    IN  cond_inames \ multi_use_inames

\* the intersection of a non-empty set of sets
Intersection(S) == {x \in UNION S : \A s \in S : x \in s}

\* mutant: a Barrier leaf leaves the running intersection as it is
LeafPredicates_BarrierNeutral(k, i) ==
    IF k.schedule[i].type = "Barrier" THEN Preds
    ELSE id_to_insn[k.schedule[i].insn_id].predicates

\* my_preds of one leaf (lines 136-139)
LeafPredicates(k, i) ==
    IF k.schedule[i].type = "Barrier" THEN {}
    ELSE id_to_insn[k.schedule[i].insn_id].predicates

get_required_predicates(k, sched_index) ==
    LET leaves == generate_sub_sched_items(k.schedule, sched_index)
    IN  IF leaves = {} THEN NonePreds
        ELSE Intersection({LeafPredicates(k, i) : i \in leaves})

(***************************************************************************)
(* Bounds derivation and codegen state (loopy.codegen).                    *)
(***************************************************************************)
\* the constraints that bound one iname in the kernel's domain
ConsOf(iname) == {<<iname, "lo">>, <<iname, "hi">>}

\* get_bounds_checks(domain, check_inames, implemented_domain, overapproximate):
\* the constraints on check_inames that the implemented domain does not imply
\* already, or None when the kernel's domain over check_inames is empty and
\* the derivation signals it
get_bounds_checks(k, check_inames, impl_domain) ==
    IF k.signals_infeasible /\ check_inames \cap k.empty_inames # {}
    THEN NoneBounds
    ELSE (UNION {ConsOf(iname) : iname \in check_inames}) \ impl_domain

\* BoundsCheckCache.__call__ (memoization does not change the value)
BoundsCheckCache(k, impl_domain, check_inames) ==
    IF check_inames = {} THEN {}
    ELSE get_bounds_checks(k, check_inames, impl_domain)

\* isl: is the set cut out by these constraints empty
SetIsEmpty(k, check_set) ==
    \E iname \in k.empty_inames : ConsOf(iname) \subseteq check_set

\* CodeGenerationState.intersect
StateIntersect(state, check_set) ==
    [state EXCEPT !.implemented_domain = @ \cup check_set]

(***************************************************************************)
(* build_loop_nest, passes 1 and 2.                                        *)
(***************************************************************************)
RECURSIVE MySchedIndices(_, _)
MySchedIndices(schedule, sched_index) ==
    IF sched_index > Len(schedule) THEN <<>>
    ELSE IF schedule[sched_index].type = "LeaveLoop" THEN <<>>
    ELSE IF schedule[sched_index].type = "EnterLoop"
        THEN <<sched_index>> \o
             MySchedIndices(schedule,
                 gather_schedule_subloop(schedule, sched_index))
    ELSE <<sched_index>> \o MySchedIndices(schedule, sched_index + 1)

ScheduleIndexInfo(k, i) ==
    [schedule_index |-> i,
     admissible_cond_inames |-> get_admissible_conditional_inames_for(k, i),
     required_predicates |-> get_required_predicates(k, i)]

SchedIndexInfoEntries(k, sched_index) ==
    LET my_sched_indices == MySchedIndices(k.schedule, sched_index)
    IN  [n \in 1 .. Len(my_sched_indices) |->
            ScheduleIndexInfo(k, my_sched_indices[n])]

(***************************************************************************)
(* Inputs: kernels and initial codegen states.                             *)
(***************************************************************************)
\* one sibling of the loop level that is built: an instruction, a barrier or
\* a loop over k
SiblingKinds ==
    {<<RunInstruction("a")>>, <<RunInstruction("b")>>, <<Barrier>>,
     <<EnterLoop("k"), RunInstruction("d"), LeaveLoop("k")>>,
     <<EnterLoop("k"), Barrier, LeaveLoop("k")>>,
     <<EnterLoop("k"), LeaveLoop("k")>>}

RECURSIVE Flatten(_)
Flatten(seqs) ==
    IF seqs = <<>> THEN <<>> ELSE Head(seqs) \o Flatten(Tail(seqs))

SiblingLists ==
    UNION {[1 .. n -> SiblingKinds] : n \in 0 .. MaxSiblings}

\* the iname tags of the kernel; the level is enclosed in a loop over i
\* when i is sequential
TagVariants ==
    {[i |-> "none", j |-> "l.0", k |-> "none"],
     [i |-> "unr", j |-> "l.0", k |-> "l.0"],
     [i |-> "g.0", j |-> "l.0", k |-> "unr"],
     [i |-> "g.0", j |-> "g.0", k |-> "none"]}

DomainVariants ==
    {[empty_inames |-> {}, signals_infeasible |-> FALSE,
      implemented_domain |-> {}, implemented_predicates |-> {}],
     [empty_inames |-> {"j"}, signals_infeasible |-> TRUE,
      implemented_domain |-> ConsOf("i"), implemented_predicates |-> {"p"}],
     [empty_inames |-> {"j"}, signals_infeasible |-> FALSE,
      implemented_domain |-> {}, implemented_predicates |-> {}]}

Enclosed(tags) == ~IsHardwareParallelTag(tags["i"])

MakeSchedule(tags, sibs) ==
    IF Enclosed(tags)
    THEN <<EnterLoop("i")>> \o Flatten(sibs) \o <<LeaveLoop("i")>>
    ELSE Flatten(sibs)

\* the position build_loop_nest is called for
StartIndex(k) == IF Enclosed(k.iname_to_tag) THEN 2 ELSE 1

Init ==
    /\ \E sibs \in SiblingLists, tags \in TagVariants, dv \in DomainVariants :
        /\ kernel = [schedule |-> MakeSchedule(tags, sibs),
                     iname_to_tag |-> tags,
                     empty_inames |-> dv.empty_inames,
                     signals_infeasible |-> dv.signals_infeasible]
        /\ codegen_state0 =
                [implemented_domain |-> dv.implemented_domain,
                 implemented_predicates |-> dv.implemented_predicates]
    /\ stack = <<>>
    /\ out = <<>>
    /\ raised = ""
    /\ dispatched = <<>>
    /\ pc = "start"

(***************************************************************************)
(* build_insn_group (lines 231-371) with an explicit call stack.           *)
(* A frame holds the arguments and the local variables of one call; pc is  *)
(* the frame's position in the function body.  Four fields record history  *)
(* the code does not keep: call (which call site made the call),           *)
(* rest_result (what the call for the remaining siblings returned),        *)
(* dead_siblings (the schedule indices of the groups that the call and the *)
(* calls it made found dead at lines 344-345) and, in each found hoist,    *)
(* cond_inames and candidate_inames (the result and the argument of        *)
(* remove_inames_for_shared_hw_axes for that candidate).                   *)
(***************************************************************************)
NewFrame(entries, state, done, call) ==
    [sched_index_info_entries |-> entries,
     codegen_state |-> state,
     done_group_lengths |-> done,
     call |-> call,
     pc |-> "begin",
     candidate_group_length |-> 1,
     current_iname_set |-> {},
     current_pred_set |-> {},
     found_hoists |-> <<>>,
     group_length |-> 0,
     bounds_checks |-> {},
     pred_checks |-> {},
     cond_inames |-> {},
     new_codegen_state |-> state,
     is_empty |-> FALSE,
     result |-> <<>>,
     rest_result |-> <<>>,
     dead_siblings |-> {}]

Top == stack[Len(stack)]

SetTop(f) == [stack EXCEPT ![Len(stack)] = f]

Running == pc = "running" /\ raised = "" /\ stack # <<>>

\* emitted code: the code of one schedule item, or a conditional around a block
LeafCode(sched_index) ==
    [kind |-> "leaf", sched_index |-> sched_index,
     bounds |-> {}, preds |-> {}, body |-> <<>>]

wrap_in_if(bounds, preds, body) ==
    [kind |-> "if", sched_index |-> 0,
     bounds |-> bounds, preds |-> preds, body |-> body]

\* lines 260-261
InitialPredSet(si_entry, state) ==
    si_entry.required_predicates \ state.implemented_predicates

\* mutant: length 1 is an option only when it has something to test
IsHoistOption_NoFallback(bounds_checks, current_pred_set, candidate_group_length) ==
    \/ (bounds_checks # {} /\ ~IsNoneBounds(bounds_checks))
    \/ IsNoneBounds(bounds_checks)
    \/ current_pred_set # {}

\* lines 305-308
IsHoistOption(bounds_checks, current_pred_set, candidate_group_length) ==
    \/ (bounds_checks # {} /\ ~IsNoneBounds(bounds_checks))
    \/ IsNoneBounds(bounds_checks)
    \/ current_pred_set # {}
    \/ candidate_group_length = 1

\* line 319: max() of tuples that differ in their first component
MaxHoist(found_hoists) ==
    CHOOSE h \in {found_hoists[n] : n \in DOMAIN found_hoists} :
        \A n \in DOMAIN found_hoists : found_hoists[n].length <= h.length

\* lines 292-296
UsedInames(k, entries, candidate_group_length) ==
    UNION {find_used_inames_within(k, entries[n].schedule_index) :
              n \in 1 .. candidate_group_length}

\* lines 300-301
OnlyUnsharedInames(k, current_iname_set, used_inames) ==
    remove_inames_for_shared_hw_axes(k, current_iname_set \cap used_inames)

\* lines 321-337: check_set is the conjunction of the bounds checks
IsEmptyCheck(k, bounds_checks) ==
    IF bounds_checks = {} THEN FALSE ELSE SetIsEmpty(k, bounds_checks)

\* mutant: the implemented domain is not narrowed by the hoisted bounds
NewCodegenState_NoNarrowing(state, bounds_checks, pred_checks) ==
    IF pred_checks # {}
    THEN [state EXCEPT !.implemented_predicates = @ \cup pred_checks]
    ELSE state

\* mutant: the hoisted predicates are not added to the implemented ones
NewCodegenState_DropsPredicates(state, bounds_checks, pred_checks) ==
    IF bounds_checks = {} THEN state ELSE StateIntersect(state, bounds_checks)

\* lines 332-342
NewCodegenState(state, bounds_checks, pred_checks) ==
    LET narrowed == IF bounds_checks = {} THEN state
                    ELSE StateIntersect(state, bounds_checks)
    IN  IF pred_checks # {}
        THEN [narrowed EXCEPT !.implemented_predicates = @ \cup pred_checks]
        ELSE narrowed

\* mutant: a group with predicate checks only gets no conditional
WrapResult_BoundsOnly(bounds_checks, pred_checks, result) ==
    IF bounds_checks # {}
    THEN <<wrap_in_if(bounds_checks, pred_checks, result)>>
    ELSE result

\* lines 360-368
WrapResult(bounds_checks, pred_checks, result) ==
    IF bounds_checks # {} \/ pred_checks # {}
    THEN <<wrap_in_if(bounds_checks, pred_checks, result)>>
    ELSE result

\* mutant: the group length just found is not recorded
InnerDoneGroupLengths_Forgets(done_group_lengths, group_length) ==
    done_group_lengths

\* mutant: the length below the one just found is recorded
InnerDoneGroupLengths_OffByOne(done_group_lengths, group_length) ==
    done_group_lengths \cup {group_length - 1}

\* line 358
InnerDoneGroupLengths(done_group_lengths, group_length) ==
    done_group_lengths \cup {group_length}

\* mutant: the inner call gets all the entries of its caller
InnerEntries_NoChop(entries, group_length) == entries

\* line 356
InnerEntries(entries, group_length) == SubSeq(entries, 1, group_length)

\* mutant: the first sibling after the group is left out
RestEntries_SkipsOne(entries, group_length) ==
    SubSeq(entries, group_length + 2, Len(entries))

\* line 371
RestEntries(entries, group_length) ==
    SubSeq(entries, group_length + 1, Len(entries))

\* lines 59-76: the tags an EnterLoop may carry
IsValidLoopTag(tag) == tag \in {"none", "unr"}

\* lines 375-376
BuildLoopNest ==
    /\ pc = "start"
    /\ stack' = <<NewFrame(SchedIndexInfoEntries(kernel, StartIndex(kernel)),
                           codegen_state0, {}, "root")>>
    /\ pc' = "running"
    /\ UNCHANGED <<kernel, codegen_state0, out, raised, dispatched>>

\* lines 254-255
ReturnEmpty ==
    /\ Running
    /\ Top.pc = "begin"
    /\ Top.sched_index_info_entries = <<>>
    /\ stack' = SetTop([Top EXCEPT !.pc = "return", !.result = <<>>])
    /\ UNCHANGED <<kernel, codegen_state0, out, raised, dispatched, pc>>

\* lines 257-271
BeginGroup ==
    /\ Running
    /\ Top.pc = "begin"
    /\ Top.sched_index_info_entries # <<>>
    /\ LET si_entry == Top.sched_index_info_entries[1]
       IN  /\ ~IsNonePreds(si_entry.required_predicates)
           /\ stack' = SetTop([Top EXCEPT
                  !.pc = "grow",
                  !.current_iname_set = si_entry.admissible_cond_inames,
                  !.current_pred_set = InitialPredSet(si_entry, Top.codegen_state),
                  !.found_hoists = <<>>,
                  !.candidate_group_length = 1])
    /\ UNCHANGED <<kernel, codegen_state0, out, raised, dispatched, pc>>

\* lines 260-261 with required_predicates None: None - frozenset raises
BeginGroupTypeError ==
    /\ Running
    /\ Top.pc = "begin"
    /\ Top.sched_index_info_entries # <<>>
    /\ IsNonePreds(Top.sched_index_info_entries[1].required_predicates)
    /\ raised' = "TypeError"
    /\ UNCHANGED <<kernel, codegen_state0, stack, out, dispatched, pc>>

\* lines 274-277
SkipDone ==
    /\ Running
    /\ Top.pc = "grow"
    /\ Top.candidate_group_length <= Len(Top.sched_index_info_entries)
    /\ Top.candidate_group_length \in Top.done_group_lengths
    /\ stack' = SetTop([Top EXCEPT !.candidate_group_length = @ + 1])
    /\ UNCHANGED <<kernel, codegen_state0, out, raised, dispatched, pc>>

\* lines 279-314: one iteration of the loop that grows the group
Candidate ==
    /\ Running
    /\ Top.pc = "grow"
    /\ Top.candidate_group_length <= Len(Top.sched_index_info_entries)
    /\ Top.candidate_group_length \notin Top.done_group_lengths
    /\ LET n == Top.candidate_group_length
           entry == Top.sched_index_info_entries[n]
           iname_set == Top.current_iname_set \cap entry.admissible_cond_inames
           pred_set == Top.current_pred_set \cap entry.required_predicates
           used_inames == UsedInames(kernel, Top.sched_index_info_entries, n)
           only_unshared_inames ==
               OnlyUnsharedInames(kernel, iname_set, used_inames)
           bounds_checks ==
               BoundsCheckCache(kernel, Top.codegen_state.implemented_domain,
                                only_unshared_inames)
       IN  /\ ~IsNonePreds(entry.required_predicates)
           /\ stack' = SetTop([Top EXCEPT
                  !.current_iname_set = iname_set,
                  !.current_pred_set = pred_set,
                  !.found_hoists =
                      IF IsHoistOption(bounds_checks, pred_set, n)
                      THEN Append(@, [length |-> n,
                                      bounds_checks |-> bounds_checks,
                                      pred_checks |-> pred_set,
                                      cond_inames |-> only_unshared_inames,
                                      candidate_inames |->
                                          iname_set \cap used_inames])
                      ELSE @,
                  !.candidate_group_length = n + 1])
    /\ UNCHANGED <<kernel, codegen_state0, out, raised, dispatched, pc>>

\* lines 283-286 with required_predicates None: frozenset & None raises
CandidateTypeError ==
    /\ Running
    /\ Top.pc = "grow"
    /\ Top.candidate_group_length <= Len(Top.sched_index_info_entries)
    /\ Top.candidate_group_length \notin Top.done_group_lengths
    /\ IsNonePreds(Top.sched_index_info_entries[Top.candidate_group_length]
                  .required_predicates)
    /\ raised' = "TypeError"
    /\ UNCHANGED <<kernel, codegen_state0, stack, out, dispatched, pc>>

\* lines 318-342; max() of an empty list raises ValueError
PickLargest ==
    /\ Running
    /\ Top.pc = "grow"
    /\ Top.candidate_group_length > Len(Top.sched_index_info_entries)
    /\ IF Top.found_hoists = <<>>
       THEN /\ raised' = "ValueError"
            /\ UNCHANGED stack
       ELSE LET h == MaxHoist(Top.found_hoists)
            IN  /\ ~IsNoneBounds(h.bounds_checks)
                /\ stack' = SetTop([Top EXCEPT
                       !.pc = "emit",
                       !.group_length = h.length,
                       !.bounds_checks = h.bounds_checks,
                       !.pred_checks = h.pred_checks,
                       !.cond_inames = h.cond_inames,
                       !.is_empty = IsEmptyCheck(kernel, h.bounds_checks),
                       !.new_codegen_state =
                           NewCodegenState(Top.codegen_state,
                                           h.bounds_checks, h.pred_checks)])
                /\ UNCHANGED raised
    /\ UNCHANGED <<kernel, codegen_state0, out, dispatched, pc>>

\* lines 319-322 with bounds_checks None: iterating over None raises
PickLargestTypeError ==
    /\ Running
    /\ Top.pc = "grow"
    /\ Top.candidate_group_length > Len(Top.sched_index_info_entries)
    /\ Top.found_hoists # <<>>
    /\ IsNoneBounds(MaxHoist(Top.found_hoists).bounds_checks)
    /\ raised' = "TypeError"
    /\ stack' = SetTop([Top EXCEPT
           !.group_length = MaxHoist(Top.found_hoists).length,
           !.bounds_checks = NoneBounds])
    /\ UNCHANGED <<kernel, codegen_state0, out, dispatched, pc>>

\* mutant: is_empty is ignored and the first sibling of the group is
\* dispatched all the same
Dead_Dispatches ==
    /\ Running
    /\ Top.pc = "emit"
    /\ Top.is_empty
    /\ LET sched_index == Top.sched_index_info_entries[1].schedule_index
       IN  /\ dispatched' = Append(dispatched,
                  [sched_index |-> sched_index,
                   codegen_state |-> Top.new_codegen_state,
                   produced |-> TRUE])
           /\ stack' = SetTop([Top EXCEPT
                  !.pc = "rest",
                  !.result = <<wrap_in_if(Top.bounds_checks, Top.pred_checks,
                                          <<LeafCode(sched_index)>>)>>])
    /\ UNCHANGED <<kernel, codegen_state0, out, raised, pc>>

\* lines 344-345
Dead ==
    /\ Running
    /\ Top.pc = "emit"
    /\ Top.is_empty
    /\ stack' = SetTop([Top EXCEPT
           !.pc = "rest",
           !.result = <<>>,
           !.dead_siblings =
               {Top.sched_index_info_entries[n].schedule_index :
                   n \in 1 .. Top.group_length}])
    /\ UNCHANGED <<kernel, codegen_state0, out, raised, dispatched, pc>>

\* lines 347-352 and 360-368, generate_code_for_sched_index (lines 56-99):
\* the code of a loop or of an instruction comes from the loop and
\* instruction generators, which may produce nothing
DispatchLeaf ==
    /\ Running
    /\ Top.pc = "emit"
    /\ ~Top.is_empty
    /\ Top.group_length = 1
    /\ LET sched_index == Top.sched_index_info_entries[1].schedule_index
           sched_item == kernel.schedule[sched_index]
       IN  /\ sched_item.type = "EnterLoop" =>
                  IsValidLoopTag(kernel.iname_to_tag[sched_item.iname])
           /\ \E produced \in BOOLEAN :
               /\ sched_item.type = "Barrier" => produced
               /\ dispatched' = Append(dispatched,
                      [sched_index |-> sched_index,
                       codegen_state |-> Top.new_codegen_state,
                       produced |-> produced])
               /\ stack' = SetTop([Top EXCEPT
                      !.pc = "rest",
                      !.result = WrapResult(Top.bounds_checks, Top.pred_checks,
                          IF produced THEN <<LeafCode(sched_index)>>
                          ELSE <<>>)])
    /\ UNCHANGED <<kernel, codegen_state0, out, raised, pc>>

\* lines 72-74
DispatchLeafRuntimeError ==
    /\ Running
    /\ Top.pc = "emit"
    /\ ~Top.is_empty
    /\ Top.group_length = 1
    /\ LET sched_item ==
               kernel.schedule[Top.sched_index_info_entries[1].schedule_index]
       IN  /\ sched_item.type = "EnterLoop"
           /\ ~IsValidLoopTag(kernel.iname_to_tag[sched_item.iname])
    /\ raised' = "RuntimeError"
    /\ UNCHANGED <<kernel, codegen_state0, stack, out, dispatched, pc>>

\* lines 354-358
RecurseInner ==
    /\ Running
    /\ Top.pc = "emit"
    /\ ~Top.is_empty
    /\ Top.group_length > 1
    /\ stack' = Append(SetTop([Top EXCEPT !.pc = "inner_called"]),
           NewFrame(InnerEntries(Top.sched_index_info_entries, Top.group_length),
                    Top.new_codegen_state,
                    InnerDoneGroupLengths(Top.done_group_lengths,
                                          Top.group_length),
                    "inner"))
    /\ UNCHANGED <<kernel, codegen_state0, out, raised, dispatched, pc>>

\* mutant: the siblings after the group get the narrowed state
RecurseRest_Narrowed ==
    /\ Running
    /\ Top.pc = "rest"
    /\ stack' = Append(SetTop([Top EXCEPT !.pc = "rest_called"]),
           NewFrame(RestEntries(Top.sched_index_info_entries, Top.group_length),
                    Top.new_codegen_state, {}, "rest"))
    /\ UNCHANGED <<kernel, codegen_state0, out, raised, dispatched, pc>>

\* lines 370-371: the call for the siblings after the group
RecurseRest ==
    /\ Running
    /\ Top.pc = "rest"
    /\ stack' = Append(SetTop([Top EXCEPT !.pc = "rest_called"]),
           NewFrame(RestEntries(Top.sched_index_info_entries, Top.group_length),
                    Top.codegen_state, {}, "rest"))
    /\ UNCHANGED <<kernel, codegen_state0, out, raised, dispatched, pc>>

\* a call returns to build_insn_group: to line 355 (then lines 360-368) or to
\* line 370
Return ==
    /\ Running
    /\ Top.pc = "return"
    /\ Len(stack) > 1
    /\ LET caller == stack[Len(stack) - 1]
           callers == SubSeq(stack, 1, Len(stack) - 1)
       IN  stack' = [callers EXCEPT ![Len(callers)] =
               IF caller.pc = "inner_called"
               THEN [caller EXCEPT
                        !.pc = "rest",
                        !.result = WrapResult(caller.bounds_checks,
                                              caller.pred_checks, Top.result),
                        !.dead_siblings = @ \cup Top.dead_siblings]
               ELSE [caller EXCEPT
                        !.pc = "return",
                        !.result = @ \o Top.result,
                        !.rest_result = Top.result,
                        !.dead_siblings = @ \cup Top.dead_siblings]]
    /\ UNCHANGED <<kernel, codegen_state0, out, raised, dispatched, pc>>

\* lines 375-376: the outermost call returns to build_loop_nest
Finish ==
    /\ Running
    /\ Top.pc = "return"
    /\ Len(stack) = 1
    /\ out' = Top.result
    /\ stack' = <<>>
    /\ pc' = "done"
    /\ UNCHANGED <<kernel, codegen_state0, raised, dispatched>>

Next ==
    \/ BuildLoopNest
    \/ ReturnEmpty
    \/ BeginGroup
    \/ BeginGroupTypeError
    \/ SkipDone
    \/ Candidate
    \/ CandidateTypeError
    \/ PickLargest
    \/ PickLargestTypeError
    \/ Dead
    \/ DispatchLeaf
    \/ DispatchLeafRuntimeError
    \/ RecurseInner
    \/ RecurseRest
    \/ Return
    \/ Finish

Spec == Init /\ [][Next]_vars

(***************************************************************************)
(* Reading the emitted code.                                               *)
(***************************************************************************)
RECURSIVE CodeLeavesFrom(_, _, _, _, _)
\* the leaves of block[n..] in output order, each with the bounds and the
\* predicates tested by the conditionals that enclose it and with ifs, the
\* positions of those conditionals from the outermost one inwards
CodeLeavesFrom(block, n, bounds, preds, ifs) ==
    IF n > Len(block) THEN <<>>
    ELSE LET node == block[n]
             here == IF node.kind = "leaf"
                     THEN <<[sched_index |-> node.sched_index,
                             bounds |-> bounds, preds |-> preds, ifs |-> ifs]>>
                     ELSE CodeLeavesFrom(node.body, 1, bounds \cup node.bounds,
                              preds \cup node.preds, Append(ifs, n))
         IN  here \o CodeLeavesFrom(block, n + 1, bounds, preds, ifs)

CodeLeaves(block) == CodeLeavesFrom(block, 1, {}, {}, <<>>)

SeqRange(seq) == {seq[n] : n \in DOMAIN seq}

InsnAt(sched_index) == id_to_insn[kernel.schedule[sched_index].insn_id]

IsRun(sched_index) == kernel.schedule[sched_index].type = "RunInstruction"

\* the frames whose hoist group has been picked (line 319 has run)
Picked(f) == f.pc \in {"emit", "inner_called", "rest", "rest_called", "return"}
             /\ f.sched_index_info_entries # <<>>

LocalInames == {n \in Inames : IsLocalIndexTag(kernel.iname_to_tag[n])}

GroupInames == {n \in Inames : IsGroupIndexTag(kernel.iname_to_tag[n])}

(***************************************************************************)
(* C1: every instruction that build_insn_group dispatches is handed a      *)
(* codegen state whose implemented predicates include all predicates of    *)
(* the instruction, and in the finished output the incoming implemented    *)
(* predicates together with the predicates tested by the conditionals      *)
(* around the instruction's code contain them.                             *)
(***************************************************************************)
C1_PredicatesImplemented ==
    /\ \A di \in DOMAIN dispatched : LET d == dispatched[di] IN
          IsRun(d.sched_index) =>
              InsnAt(d.sched_index).predicates
                  \subseteq d.codegen_state.implemented_predicates
    /\ pc = "done" =>
          \A leaf \in SeqRange(CodeLeaves(out)) :
              IsRun(leaf.sched_index) =>
                  InsnAt(leaf.sched_index).predicates
                      \subseteq (codegen_state0.implemented_predicates
                                 \cup leaf.preds)

\* an instruction with a predicate the incoming state does not implement
\* has been emitted
C1_Witness ==
    /\ pc = "done"
    /\ \E leaf \in SeqRange(CodeLeaves(out)) :
          /\ IsRun(leaf.sched_index)
          /\ ~(InsnAt(leaf.sched_index).predicates
                  \subseteq codegen_state0.implemented_predicates)
          /\ Len(leaf.ifs) >= 2

(***************************************************************************)
(* C2: when no EnterLoop of the schedule is on a hardware-tagged iname,    *)
(* the iname set from which the conditional of a picked hoist group is     *)
(* derived has no local-hardware-tagged iname if a sibling of the group    *)
(* holds a Barrier, and in the output no conditional around a Barrier (or  *)
(* around a loop holding one) tests a bound on such an iname.              *)
(***************************************************************************)
NoHardwareEnterLoop ==
    \A n \in DOMAIN kernel.schedule :
        kernel.schedule[n].type = "EnterLoop" =>
            ~IsHardwareParallelTag(kernel.iname_to_tag[kernel.schedule[n].iname])

GroupHoldsBarrier(f) ==
    \E n \in 1 .. f.group_length :
        has_barrier_within(kernel, f.sched_index_info_entries[n].schedule_index)

C2_BarrierSafety ==
    NoHardwareEnterLoop =>
        /\ \A fi \in DOMAIN stack : LET f == stack[fi] IN
              (Picked(f) /\ GroupHoldsBarrier(f)) =>
                  f.cond_inames \cap LocalInames = {}
        /\ pc = "done" =>
              \A leaf \in SeqRange(CodeLeaves(out)) :
                  has_barrier_within(kernel, leaf.sched_index) =>
                      {c[1] : c \in leaf.bounds} \cap LocalInames = {}

\* a group of an instruction that uses a local-tagged iname and a barrier
\* is hoisted with a bounds check
C2_Witness ==
    /\ NoHardwareEnterLoop
    /\ \E fi \in DOMAIN stack : LET f == stack[fi] IN
          /\ Picked(f)
          /\ f.group_length >= 2
          /\ GroupHoldsBarrier(f)
          /\ f.bounds_checks # {}
          /\ UsedInames(kernel, f.sched_index_info_entries, f.group_length)
                 \cap LocalInames # {}

(***************************************************************************)
(* C3: remove_inames_for_shared_hw_axes returns its argument without the   *)
(* hardware-tagged inames whose axis key another hardware-tagged iname of  *)
(* the argument carries too (for every set of inames of the kernel, and    *)
(* for the argument and the result of every hoist candidate of the running *)
(* call), and the iname set of no hoist candidate holds two inames tagged  *)
(* to one hardware axis key.                                               *)
(***************************************************************************)
SharesAxis(cond_inames, n) ==
    /\ IsHardwareParallelTag(kernel.iname_to_tag[n])
    /\ \E m \in cond_inames \ {n} :
          /\ IsHardwareParallelTag(kernel.iname_to_tag[m])
          /\ TagKey(kernel.iname_to_tag[m]) = TagKey(kernel.iname_to_tag[n])

C3_SharedAxesRemoved ==
    /\ pc = "start" =>
          \A cond_inames \in SUBSET Inames :
              remove_inames_for_shared_hw_axes(kernel, cond_inames)
                  = cond_inames \
                        {n \in cond_inames : SharesAxis(cond_inames, n)}
    /\ stack # <<>> => LET f == Top IN
          \A hi \in DOMAIN f.found_hoists : LET h == f.found_hoists[hi] IN
              /\ h.cond_inames =
                     h.candidate_inames \
                         {n \in h.candidate_inames :
                             SharesAxis(h.candidate_inames, n)}
              /\ \A n \in h.cond_inames : ~SharesAxis(h.cond_inames, n)

\* a hoist candidate whose inames held two inames of one hardware axis and
\* one iname that stays
C3_Witness ==
    stack # <<>> /\ LET f == Top IN
        \E hi \in DOMAIN f.found_hoists : LET h == f.found_hoists[hi] IN
            /\ \E n \in h.candidate_inames : SharesAxis(h.candidate_inames, n)
            /\ h.cond_inames # {}

(***************************************************************************)
(* C4: when the bounds derivation returned None for the hoist group that   *)
(* is picked, no error is raised, the group emits no code and the call for *)
(* the siblings after the group gets the caller's codegen state.           *)
(***************************************************************************)
PicksInfeasible(f) ==
    /\ f.pc # "begin"
    /\ f.candidate_group_length > Len(f.sched_index_info_entries)
    /\ f.found_hoists # <<>>
    /\ IsNoneBounds(MaxHoist(f.found_hoists).bounds_checks)

C4_InfeasibleGroupIsDead ==
    \A n \in DOMAIN stack :
        PicksInfeasible(stack[n]) =>
            /\ raised = ""
            /\ stack[n].pc \in {"rest", "rest_called"} => stack[n].result = <<>>
            /\ (stack[n].pc = "rest_called" /\ n < Len(stack)) =>
                   stack[n + 1].codegen_state = stack[n].codegen_state

(***************************************************************************)
(* C5: a picked hoist group whose bounds checks combine to the empty set   *)
(* contributes no statement: the step taken for it dispatches no leaf,     *)
(* makes no inner call and emits no conditional, and the call returns      *)
(* exactly what build_insn_group returns for entries[group_length:].       *)
(***************************************************************************)
DeadGroup(f) ==
    Picked(f) /\ f.bounds_checks # {} /\ SetIsEmpty(kernel, f.bounds_checks)

C5_DeadState ==
    /\ \A fi \in DOMAIN stack : LET f == stack[fi] IN
          DeadGroup(f) =>
              /\ f.pc # "inner_called"
              /\ f.pc \in {"rest", "rest_called"} => f.result = <<>>
              /\ f.pc = "return" => f.result = f.rest_result
    /\ \A n \in 1 .. (Len(stack) - 1) :
          (DeadGroup(stack[n]) /\ stack[n].pc = "rest_called") =>
              /\ stack[n + 1].call = "rest"
              /\ stack[n + 1].sched_index_info_entries =
                     SubSeq(stack[n].sched_index_info_entries,
                            stack[n].group_length + 1,
                            Len(stack[n].sched_index_info_entries))

C5_DeadStep ==
    (Running /\ Top.pc = "emit" /\ DeadGroup(Top)) =>
        /\ dispatched' = dispatched
        /\ Len(stack') = Len(stack)
        /\ stack'[Len(stack)].pc = "rest"
        /\ stack'[Len(stack)].result = <<>>

C5_DeadGroupEmitsNothing == [](C5_DeadState) /\ [][C5_DeadStep]_vars

\* a dead group has returned, and what it returned is the non-empty code of
\* the siblings after it
C5_Witness ==
    \E fi \in DOMAIN stack : LET f == stack[fi] IN
        /\ DeadGroup(f)
        /\ f.pc = "return"
        /\ f.result # <<>>

(***************************************************************************)
(* C6: along the call stack of build_insn_group the pair (len(entries),    *)
(* number of lengths in 1..len(entries) not in done_group_lengths) falls   *)
(* strictly in lexicographic order from each call to the call it makes,    *)
(* and the loop counter of every call stays within len(entries) + 1.       *)
(***************************************************************************)
OpenLengths(f) ==
    Cardinality({n \in 1 .. Len(f.sched_index_info_entries) :
                    n \notin f.done_group_lengths})

MeasureFalls(caller, callee) ==
    \/ Len(callee.sched_index_info_entries) < Len(caller.sched_index_info_entries)
    \/ /\ Len(callee.sched_index_info_entries)
              = Len(caller.sched_index_info_entries)
       /\ OpenLengths(callee) < OpenLengths(caller)

C6_MeasureDecreases ==
    /\ \A n \in 1 .. (Len(stack) - 1) : MeasureFalls(stack[n], stack[n + 1])
    /\ \A fi \in DOMAIN stack : LET f == stack[fi] IN
          f.candidate_group_length <= Len(f.sched_index_info_entries) + 1

\* an inner call for a group of all the entries of its caller: the first
\* component stays and the second falls
C6_Witness ==
    \E n \in 1 .. (Len(stack) - 1) :
        /\ stack[n + 1].call = "inner"
        /\ Len(stack[n + 1].sched_index_info_entries)
               = Len(stack[n].sched_index_info_entries)
        /\ Len(stack[n].sched_index_info_entries) >= 3

(***************************************************************************)
(* C7: two adjacent instruction siblings with the same predicates and the  *)
(* same used inames lie inside the same conditionals of the output, and no *)
(* conditional tests again a bound or a predicate that a conditional       *)
(* around it tests.  n >= 2 siblings that share the bound on i and have no *)
(* predicates give one conditional on that bound around their n leaf codes *)
(* in order, with no conditional inside.                                   *)
(***************************************************************************)
Siblings == MySchedIndices(kernel.schedule, StartIndex(kernel))

RECURSIVE HasRepeatedCheck(_, _, _)
\* does a conditional of the block test something that is in bounds or preds,
\* the checks of the conditionals around the block, or that a conditional
\* between it and the block tests
HasRepeatedCheck(block, bounds, preds) ==
    \E n \in DOMAIN block :
        /\ block[n].kind = "if"
        /\ \/ block[n].bounds \cap bounds # {}
           \/ block[n].preds \cap preds # {}
           \/ HasRepeatedCheck(block[n].body, bounds \cup block[n].bounds,
                               preds \cup block[n].preds)

RECURSIVE ProducedCode(_)
\* the leaf codes of the dispatches that produced code, in dispatch order
ProducedCode(log) ==
    IF log = <<>> THEN <<>>
    ELSE (IF Head(log).produced THEN <<LeafCode(Head(log).sched_index)>>
          ELSE <<>>) \o ProducedCode(Tail(log))

AllShareBoundOnI ==
    /\ Len(Siblings) >= 2
    /\ \A n \in DOMAIN Siblings :
          /\ IsRun(Siblings[n])
          /\ InsnAt(Siblings[n]) = id_to_insn["a"]
    /\ codegen_state0.implemented_domain \cap ConsOf("i") = {}

C7_SharedConditionalOnce ==
    pc = "done" =>
        /\ \A n \in 1 .. (Len(Siblings) - 1) :
              (/\ IsRun(Siblings[n])
               /\ IsRun(Siblings[n + 1])
               /\ InsnAt(Siblings[n]) = InsnAt(Siblings[n + 1])) =>
                  \A x, y \in SeqRange(CodeLeaves(out)) :
                      (x.sched_index = Siblings[n]
                          /\ y.sched_index = Siblings[n + 1]) =>
                          x.ifs = y.ifs
        /\ ~HasRepeatedCheck(out, {}, {})
        /\ AllShareBoundOnI =>
              /\ [n \in DOMAIN dispatched |-> dispatched[n].sched_index]
                     = Siblings
              /\ out = <<wrap_in_if(ConsOf("i"), {}, ProducedCode(dispatched))>>

\* three siblings sharing the bound on i have all been emitted
C7_Witness ==
    /\ pc = "done"
    /\ AllShareBoundOnI
    /\ Len(Siblings) = 3
    /\ Len(out) = 1
    /\ Len(out[1].body) = 3

(***************************************************************************)
(* C8, as claimed: when a Barrier sibling lies between two instruction     *)
(* siblings and an iname is tagged to local axis 0, the admissible         *)
(* conditional inames of the first instruction sibling exclude that iname. *)
(***************************************************************************)
RootEntries == stack[1].sched_index_info_entries

\* passes 1 and 2 of build_loop_nest have just computed the entries
EntriesComputed == Len(stack) = 1 /\ stack[1].pc = "begin"

IsBarrier(sched_index) == kernel.schedule[sched_index].type = "Barrier"

\* entries m < b < n of the level: an instruction, a Barrier, an instruction
BarrierBetween(m, b, n) ==
    /\ m < b
    /\ b < n
    /\ IsRun(RootEntries[m].schedule_index)
    /\ IsBarrier(RootEntries[b].schedule_index)
    /\ IsRun(RootEntries[n].schedule_index)

LocalAxis0Inames == {x \in Inames : kernel.iname_to_tag[x] = "l.0"}

AdmissibleAsClaimed(sched_index) ==
    find_active_inames_at(kernel, sched_index)
        \cup GroupInames
        \cup (IF has_barrier_within(kernel, sched_index) THEN {}
              ELSE LocalInames)

C9_AdmissibleExactly ==
    /\ pc = "start" =>
          \A sched_index \in DOMAIN kernel.schedule :
              get_admissible_conditional_inames_for(kernel, sched_index)
                  = AdmissibleAsClaimed(sched_index)
    /\ (stack # <<>> /\ Top.pc = "begin") => LET f == Top IN
          \A ei \in DOMAIN f.sched_index_info_entries :
              LET e == f.sched_index_info_entries[ei] IN
              e.admissible_cond_inames = AdmissibleAsClaimed(e.schedule_index)

\* a sibling with a barrier within, in a kernel with a group-tagged and a
\* local-tagged iname, neither of them active
C9_Witness ==
    \E fi \in DOMAIN stack : LET f == stack[fi] IN
        \E ei \in DOMAIN f.sched_index_info_entries :
            LET e == f.sched_index_info_entries[ei] IN
            /\ has_barrier_within(kernel, e.schedule_index)
            /\ GroupInames \ find_active_inames_at(kernel, e.schedule_index) # {}
            /\ LocalInames # {}
            /\ GroupInames \subseteq e.admissible_cond_inames
            /\ LocalInames \cap e.admissible_cond_inames = {}

(***************************************************************************)
(* C10: for a sibling whose subtree has no leaves get_required_predicates  *)
(* returns the empty set, and build_insn_group processes the sibling       *)
(* without an error.                                                       *)
(***************************************************************************)
C10_EmptySubtreeNoPredicates ==
    \A fi \in DOMAIN stack : LET f == stack[fi] IN
        \A ei \in DOMAIN f.sched_index_info_entries :
              LET e == f.sched_index_info_entries[ei] IN
            generate_sub_sched_items(kernel.schedule, e.schedule_index) = {} =>
                /\ e.required_predicates = {}
                /\ raised # "TypeError"

(***************************************************************************)
(* C11: for a position whose subtree has a leaf, get_required_predicates   *)
(* returns the predicates that every RunInstruction leaf of the subtree    *)
(* carries, and nothing when the subtree holds a Barrier; the predicate    *)
(* guard of a picked hoist group with a Barrier in it is empty, and in the *)
(* output no conditional around a Barrier (or around a loop holding one)   *)
(* tests a predicate.                                                      *)
(***************************************************************************)
RequiredAsClaimed(sched_index) ==
    {x \in Preds :
        /\ ~has_barrier_within(kernel, sched_index)
        /\ \A i \in SubtreeIndices(kernel.schedule, sched_index) :
              IsRun(i) => x \in InsnAt(i).predicates}

C11_BarrierHasNoPredicateGuard ==
    /\ pc = "start" =>
          \A sched_index \in DOMAIN kernel.schedule :
              generate_sub_sched_items(kernel.schedule, sched_index) # {} =>
                  get_required_predicates(kernel, sched_index)
                      = RequiredAsClaimed(sched_index)
    /\ \A fi \in DOMAIN stack : LET f == stack[fi] IN
          (Picked(f) /\ GroupHoldsBarrier(f)) => f.pred_checks = {}
    /\ pc = "done" =>
          \A leaf \in SeqRange(CodeLeaves(out)) :
              has_barrier_within(kernel, leaf.sched_index) => leaf.preds = {}

\* a group of an instruction with a predicate that is not implemented yet
\* and a Barrier is hoisted with a bounds check and without a predicate
C11_Witness ==
    \E fi \in DOMAIN stack : LET f == stack[fi] IN
        /\ Picked(f)
        /\ f.group_length >= 2
        /\ GroupHoldsBarrier(f)
        /\ f.bounds_checks # {}
        /\ f.pred_checks = {}
        /\ \E n \in 1 .. f.group_length :
              f.sched_index_info_entries[n].required_predicates
                  \ f.codegen_state.implemented_predicates # {}

(***************************************************************************)
(* C12: the state narrowed for a picked hoist group (implemented domain    *)
(* intersected with the group's bounds checks, implemented predicates      *)
(* united with its predicate checks) is handed to the code inside the      *)
(* group only.  The outermost call holds the state build_loop_nest was     *)
(* given, the inner call holds the narrowed state, the call for            *)
(* entries[group_length:] holds the state of its caller, and no step       *)
(* changes the codegen state of a call that is on the stack.               *)
(***************************************************************************)
Narrowed(f) ==
    [implemented_domain |->
         f.codegen_state.implemented_domain \cup f.bounds_checks,
     implemented_predicates |->
         f.codegen_state.implemented_predicates \cup f.pred_checks]

C12_FrameState ==
    /\ stack # <<>> => stack[1].codegen_state = codegen_state0
    /\ \A n \in 1 .. (Len(stack) - 1) :
          /\ stack[n].pc = "rest_called" =>
                /\ stack[n + 1].codegen_state = stack[n].codegen_state
                /\ stack[n + 1].sched_index_info_entries =
                       SubSeq(stack[n].sched_index_info_entries,
                              stack[n].group_length + 1,
                              Len(stack[n].sched_index_info_entries))
          /\ stack[n].pc = "inner_called" =>
                stack[n + 1].codegen_state = Narrowed(stack[n])

C12_FrameStep ==
    \A n \in DOMAIN stack :
        n \in DOMAIN stack' =>
            stack'[n].codegen_state = stack[n].codegen_state

C12_NarrowingStaysInGroup == [](C12_FrameState) /\ [][C12_FrameStep]_vars

\* a group was narrowed by a bounds check and by a predicate, and the call
\* for the siblings after it runs with the caller's state
C12_Witness ==
    \E n \in 1 .. (Len(stack) - 1) :
        /\ stack[n].pc = "rest_called"
        /\ stack[n].bounds_checks # {}
        /\ stack[n].pred_checks # {}
        /\ ~stack[n].is_empty
        /\ stack[n + 1].sched_index_info_entries # <<>>
        /\ stack[n + 1].codegen_state # stack[n].new_codegen_state
        /\ stack[n + 1].pc = "emit"

(***************************************************************************)
(* C13: in every call of build_insn_group with a non-empty entry list, 1   *)
(* is not in done_group_lengths, and once the loop has gone past candidate *)
(* length 1 the first found hoist is the one of length 1; so found_hoists  *)
(* is not empty when the largest group is picked, max() never raises       *)
(* ValueError, and every picked group has a length within 1..len(entries). *)
(***************************************************************************)
PastFirstCandidate(f) == f.pc # "begin" /\ f.candidate_group_length > 1

InnerChain(m, n) ==
    /\ m < n
    /\ \A x \in m .. (n - 1) : stack[x].pc = "inner_called"

C14_InnerGroupShorter ==
    \A m \in DOMAIN stack : \A n \in DOMAIN stack :
        InnerChain(m, n) =>
            /\ stack[m].group_length > 1
            /\ \A hi \in DOMAIN stack[n].found_hoists :
                  stack[n].found_hoists[hi].length < stack[m].group_length
            /\ Picked(stack[n]) =>
                  stack[n].group_length < stack[m].group_length

\* an inner call inside an inner call, each with a picked group
C14_Witness ==
    \E n \in 1 .. (Len(stack) - 2) :
        /\ InnerChain(n, n + 2)
        /\ stack[n].group_length = 3
        /\ stack[n + 1].group_length = 2
        /\ Picked(stack[n + 2])

(***************************************************************************)
(* C15: the codegen state a leaf is dispatched with is the state           *)
(* build_loop_nest was given, narrowed by exactly the checks of the        *)
(* conditionals around the leaf's code in the output: its implemented      *)
(* domain is the incoming one cut by their bounds checks, its implemented  *)
(* predicates are the incoming ones with their predicates.  For each       *)
(* picked group that is not dead, the state handed on differs from the     *)
(* call's state if and only if the group's code is one conditional that    *)
(* tests the group's checks.                                               *)
(***************************************************************************)
ProducedDispatches == SelectSeq(dispatched, LAMBDA d : d.produced)

NarrowedBy(state, bounds, preds) ==
    [implemented_domain |-> state.implemented_domain \cup bounds,
     implemented_predicates |-> state.implemented_predicates \cup preds]

GroupCodeIsConditional(f) ==
    /\ Len(f.result) = 1
    /\ f.result[1].kind = "if"
    /\ f.result[1].bounds = f.bounds_checks
    /\ f.result[1].preds = f.pred_checks

C15_NarrowedIffGuarded ==
    /\ \A fi \in DOMAIN stack : LET f == stack[fi] IN
          (Picked(f) /\ ~f.is_empty) =>
              /\ f.new_codegen_state =
                     NarrowedBy(f.codegen_state, f.bounds_checks, f.pred_checks)
              /\ f.pc \in {"rest", "rest_called"} =>
                    (f.new_codegen_state # f.codegen_state
                        <=> GroupCodeIsConditional(f))
    /\ pc = "done" =>
          LET leaves == CodeLeaves(out)
              log == ProducedDispatches
          IN  /\ Len(leaves) = Len(log)
              /\ \A n \in DOMAIN leaves :
                    /\ log[n].sched_index = leaves[n].sched_index
                    /\ log[n].codegen_state =
                           NarrowedBy(codegen_state0, leaves[n].bounds,
                                      leaves[n].preds)

\* the output holds a leaf inside two conditionals, with a bounds check and
\* a predicate among them, next to a leaf outside every conditional
C15_Witness ==
    /\ pc = "done"
    /\ \E x, y \in SeqRange(CodeLeaves(out)) :
          /\ Len(x.ifs) >= 2
          /\ x.bounds # {}
          /\ x.preds # {}
          /\ y.ifs = <<>>

(***************************************************************************)
(* C16, as claimed: in every call every member of done_group_lengths is at *)
(* least len(entries), so only the candidate length len(entries) is ever   *)
(* skipped, and for every recorded hoist option of length k the iname set  *)
(* is the intersection of the admissible inames of entries[0..k) and the   *)
(* predicate set is the intersection of their required predicates.         *)
(***************************************************************************)
DoneAtLeastLen(f) ==
    \A g \in f.done_group_lengths : g >= Len(f.sched_index_info_entries)

AdmissibleOfFirst(f, k) ==
    Intersection({f.sched_index_info_entries[n].admissible_cond_inames :
                     n \in 1 .. k})

RequiredOfFirst(f, k) ==
    Intersection({f.sched_index_info_entries[n].required_predicates :
                     n \in 1 .. k})

HoistInamesComplete(f, h) ==
    h.candidate_inames =
        AdmissibleOfFirst(f, h.length)
            \cap UsedInames(kernel, f.sched_index_info_entries, h.length)

DispatchedIndices == {dispatched[n].sched_index : n \in DOMAIN dispatched}

EntryIndices(f) ==
    {f.sched_index_info_entries[n].schedule_index :
        n \in DOMAIN f.sched_index_info_entries}

StrictlyRising(seq) ==
    \A n \in 1 .. (Len(seq) - 1) : seq[n].sched_index < seq[n + 1].sched_index

C17_DispatchedOnceInOrder ==
    /\ StrictlyRising(dispatched)
    /\ DispatchedIndices \subseteq SeqRange(Siblings)
    /\ (stack # <<>> /\ Top.pc = "return") =>
          /\ Top.dead_siblings \subseteq EntryIndices(Top)
          /\ DispatchedIndices \cap EntryIndices(Top)
                 = EntryIndices(Top) \ Top.dead_siblings
    /\ pc = "done" => StrictlyRising(CodeLeaves(out))

\* the outermost call returns with a dead group between two dispatched
\* siblings
C17_Witness ==
    /\ Len(stack) = 1
    /\ Top.pc = "return"
    /\ \E s \in Top.dead_siblings :
          /\ \E n \in DOMAIN dispatched : dispatched[n].sched_index < s
          /\ \E n \in DOMAIN dispatched : dispatched[n].sched_index > s

====
